---- MODULE Spec2Model ----
(***************************************************************************)
(* A model of the network-resilience and realtime core of the repository:  *)
(*   - DegradedModeManager   (src/src/infra/network/degraded-mode.ts)      *)
(*   - the retry policy      (src/src/infra/network/degraded-mode.ts)      *)
(*   - BFFClient.request     (src/unnamed/part_001)                        *)
(*   - SocketManager         (src/src/infra/realtime/manager.ts,           *)
(*                            src/src/infra/realtime/client.ts)            *)
(* Every object is a record of its fields; every method is an operator     *)
(* from the state before the call to the state after it, so that a method  *)
(* that calls another one is the composition of the two operators.         *)
(***************************************************************************)
EXTENDS Integers, Sequences, FiniteSets, TLC

\* ------------------------------------------------------------------ bounds
\* Number of DegradedModeManager API calls in one run of SpecTracker.
MaxOps == 5
\* Largest failure threshold the constructor is given (the default is 3).
MaxThreshold == 3
\* Subscribers of the tracker.
NumListeners == 1
\* Logical request() calls in one run of SpecRequest.
NumRequests == 2
\* Largest retry.maxAttempts a caller passes (the default is 3).
MaxAttempts == 3
\* connect() invocations (direct or by a login signal) in one run of SpecSocket.
MaxConnectCalls == 2
\* Largest attempt number the retry policy functions are called with in one run
\* of SpecPolicy.
MaxPolicyAttempts == 5
\* Registrations of the mapping handlers (made by setupSocketEventMappings and
\* not removed by cleanupSocketEventMappings) in one run of SpecBridge.
MaxSetupCalls == 2

\* ------------------------------------------------- NetworkStatus (enum)
ONLINE == "online"
DEGRADED == "degraded"
OFFLINE == "offline"
NetworkStatus == {ONLINE, DEGRADED, OFFLINE}

\* The default of the constructor's maxFailures parameter.
DefaultMaxFailures == 3

Listeners == 1..NumListeners

VARIABLES
  tracker,      \* the DegradedModeManager object
  trackerLog    \* history: the names of the tracker methods called so far

trackerVars == <<tracker, trackerLog>>

\* --------------------------------------------------- DegradedModeManager
\* The object after construction with maxFailures = n.
NewTracker(n) ==
  [ status |-> ONLINE,
    consecutiveFailures |-> 0,
    maxConsecutiveFailures |-> n,
    recoveryTimer |-> FALSE,     \* whether recoveryTimer holds a timer handle
    liveTimers |-> 0,            \* setInterval timers created and not cleared
    listeners |-> << >>,         \* the listeners array
    inbox |-> [l \in Listeners |-> << >>] ]  \* what each listener was called with

\* this.listeners.forEach((listener) => listener(this.status))
RECURSIVE Deliver(_, _, _)
Deliver(inbox, ls, s) ==
  IF ls = << >> THEN inbox
  ELSE Deliver([inbox EXCEPT ![Head(ls)] = Append(@, s)], Tail(ls), s)

notifyListeners(t) == [t EXCEPT !.inbox = Deliver(t.inbox, t.listeners, t.status)]

startRecoveryChecks(t) ==
  IF t.recoveryTimer THEN t
  ELSE [t EXCEPT !.recoveryTimer = TRUE, !.liveTimers = @ + 1]

\* A plausible slip: the already-DEGRADED test left out.
enterDegradedMode_NoGuard(t) ==
  startRecoveryChecks(notifyListeners([t EXCEPT !.status = DEGRADED]))

enterDegradedMode(t) ==
  IF t.status = DEGRADED THEN t
  ELSE startRecoveryChecks(notifyListeners([t EXCEPT !.status = DEGRADED]))

recover(t) ==
  IF t.status = ONLINE THEN t
  ELSE LET t1 == [t EXCEPT !.status = ONLINE, !.consecutiveFailures = 0]
           t2 == IF t1.recoveryTimer
                 THEN [t1 EXCEPT !.recoveryTimer = FALSE, !.liveTimers = @ - 1]
                 ELSE t1
       IN notifyListeners(t2)

\* A plausible slip: the threshold compared with > instead of >=.
recordFailure_OffByOne(t) ==
  LET t1 == [t EXCEPT !.consecutiveFailures = @ + 1]
  IN IF t1.consecutiveFailures > t1.maxConsecutiveFailures
     THEN enterDegradedMode(t1) ELSE t1

recordFailure(t) ==
  LET t1 == [t EXCEPT !.consecutiveFailures = @ + 1]
  IN IF t1.consecutiveFailures >= t1.maxConsecutiveFailures
     THEN enterDegradedMode(t1) ELSE t1

\* A plausible slip: the recovery path returns early, before the counter is
\* reset, and recovery itself leaves the counter alone.
recordSuccess_NoReset(t) ==
  IF t.status # ONLINE
  THEN notifyListeners([t EXCEPT !.status = ONLINE, !.recoveryTimer = FALSE,
                                 !.liveTimers = IF t.recoveryTimer THEN @ - 1 ELSE @])
  ELSE [t EXCEPT !.consecutiveFailures = 0]

\* A plausible slip: a success resets the counter and leaves the recovery to
\* the timer.
recordSuccess_NoRecover(t) == [t EXCEPT !.consecutiveFailures = 0]

recordSuccess(t) ==
  LET t1 == IF t.status # ONLINE THEN recover(t) ELSE t
  IN [t1 EXCEPT !.consecutiveFailures = 0]

forceDegraded(t) == enterDegradedMode(t)

forceRecover(t) == recover(t)

reset(t) ==
  LET t1 == [t EXCEPT !.status = ONLINE, !.consecutiveFailures = 0]
  IN IF t1.recoveryTimer
     THEN [t1 EXCEPT !.recoveryTimer = FALSE, !.liveTimers = @ - 1]
     ELSE t1

\* A plausible slip: the current status replayed to the new subscriber.
subscribe_Replay(t, l) ==
  [t EXCEPT !.listeners = Append(@, l), !.inbox[l] = Append(@, t.status)]

subscribe(t, l) == [t EXCEPT !.listeners = Append(@, l)]

\* The function subscribe returns: this.listeners.filter((l) => l !== listener)
unsubscribe(t, l) == [t EXCEPT !.listeners = SelectSeq(@, LAMBDA x : x # l)]

\* ------------------------------------------------------ tracker actions
\* The singleton: new DegradedModeManager()
TrackerInit ==
  /\ tracker = NewTracker(DefaultMaxFailures)
  /\ trackerLog = << >>

\* A tracker constructed with any threshold: new DegradedModeManager(n)
TrackerInitAny ==
  /\ tracker \in {NewTracker(n) : n \in 1..MaxThreshold}
  /\ trackerLog = << >>

CallRecordFailure ==
  /\ Len(trackerLog) < MaxOps
  /\ tracker' = recordFailure(tracker)
  /\ trackerLog' = Append(trackerLog, "recordFailure")

CallRecordSuccess ==
  /\ Len(trackerLog) < MaxOps
  /\ tracker' = recordSuccess(tracker)
  /\ trackerLog' = Append(trackerLog, "recordSuccess")

CallForceDegraded ==
  /\ Len(trackerLog) < MaxOps
  /\ tracker' = forceDegraded(tracker)
  /\ trackerLog' = Append(trackerLog, "forceDegraded")

CallForceRecover ==
  /\ Len(trackerLog) < MaxOps
  /\ tracker' = forceRecover(tracker)
  /\ trackerLog' = Append(trackerLog, "forceRecover")

CallReset ==
  /\ Len(trackerLog) < MaxOps
  /\ tracker' = reset(tracker)
  /\ trackerLog' = Append(trackerLog, "reset")

CallSubscribe(l) ==
  /\ Len(trackerLog) < MaxOps
  /\ tracker' = subscribe(tracker, l)
  /\ trackerLog' = Append(trackerLog, "subscribe")

CallUnsubscribe(l) ==
  /\ Len(trackerLog) < MaxOps
  /\ \E i \in 1..Len(tracker.listeners) : tracker.listeners[i] = l
  /\ tracker' = unsubscribe(tracker, l)
  /\ trackerLog' = Append(trackerLog, "unsubscribe")

\* The setInterval callback: it only logs.
RecoveryTick ==
  /\ tracker.recoveryTimer
  /\ UNCHANGED trackerVars

\* ----------------------------------------------------------- retry policy
\* defaultNetworkStrategy.retry
DefaultRetryMaxAttempts == 3
DefaultInitialDelay == 1000
DefaultMaxDelay == 10000
DefaultBackoffMultiplier == 2

defaultRetry ==
  [ enabled |-> TRUE,
    maxAttempts |-> DefaultRetryMaxAttempts,
    initialDelay |-> DefaultInitialDelay,
    maxDelay |-> DefaultMaxDelay,
    backoffMultiplier |-> DefaultBackoffMultiplier,
    retryableStatusCodes |-> {408, 429, 500, 502, 503, 504} ]

\* A plausible slip: no status is ever taken as retryable.
isRetryableError_Never(statusCode, config) == FALSE

\* A plausible slip: the enabled flag not consulted.
isRetryableError_IgnoresEnabled(statusCode, config) ==
  statusCode \in config.retryableStatusCodes

\* A plausible slip: an error without status taken as retryable.
isRetryableError_NoStatusRetryable(statusCode, config) ==
  IF ~config.enabled THEN FALSE
  ELSE statusCode = 0 \/ statusCode \in config.retryableStatusCodes

isRetryableError(statusCode, config) ==
  IF ~config.enabled THEN FALSE
  ELSE statusCode \in config.retryableStatusCodes

\* Math.pow(b, e) for a natural exponent
RECURSIVE Pow(_, _)
Pow(b, e) == IF e <= 0 THEN 1 ELSE b * Pow(b, e - 1)

Min(a, b) == IF a <= b THEN a ELSE b

\* A plausible slip: the exponent taken as attempt instead of attempt - 1.
calculateRetryDelay_NoMinusOne(attempt, config) ==
  Min(config.initialDelay * Pow(config.backoffMultiplier, attempt), config.maxDelay)

calculateRetryDelay(attempt, config) ==
  LET delay == config.initialDelay * Pow(config.backoffMultiplier, attempt - 1)
  IN Min(delay, config.maxDelay)

\* ---------------------------------------------- the policy functions alone
\* The retry configurations a caller may pass to the two functions.
PolicyConfigs ==
  { [ enabled |-> e,
      maxAttempts |-> DefaultRetryMaxAttempts,
      initialDelay |-> i,
      maxDelay |-> x,
      backoffMultiplier |-> b,
      retryableStatusCodes |-> codes ] :
    e \in BOOLEAN, i \in {DefaultInitialDelay, 500}, x \in {DefaultMaxDelay, 3000},
    b \in 1..3, codes \in {defaultRetry.retryableStatusCodes, {}} }

\* The status codes isRetryableError is asked about (0: an error with no status).
PolicyStatuses == {0, 200, 404, 429, 503}

VARIABLES
  policy        \* one caller of the policy functions: its config and status code,
                \* and what the functions returned for attempts 1, 2, ...

policyVars == <<policy>>

\* A caller that holds config and statusCode and has called nothing yet.
NewPolicy(config, statusCode) ==
  [ config |-> config, statusCode |-> statusCode,
    decisions |-> << >>,    \* isRetryableError(statusCode, config), by attempt
    delays |-> << >> ]      \* calculateRetryDelay(attempt, config), by attempt

PolicyInit == policy = NewPolicy(defaultRetry, 0)

PolicyInitAny ==
  policy \in {NewPolicy(c, s) : c \in PolicyConfigs, s \in PolicyStatuses}

\* The catch block of the next attempt asks isRetryableError(statusCode, config).
CallIsRetryableError ==
  /\ Len(policy.decisions) < MaxPolicyAttempts
  /\ policy' = [policy EXCEPT
                  !.decisions = Append(@, isRetryableError(policy.statusCode, policy.config))]

\* calculateRetryDelay(attempt, config) is called for the next attempt number.
CallCalculateRetryDelay ==
  /\ Len(policy.delays) < MaxPolicyAttempts
  /\ policy' = [policy EXCEPT
                  !.delays = Append(@, calculateRetryDelay(Len(policy.delays) + 1,
                                                           policy.config))]

\* ------------------------------------------------------------- BFFClient
Requests == 1..NumRequests

\* What the backend answers to one attempt.
Statuses == {200, 401, 404, 503}

\* response.ok
Ok(status) == status >= 200 /\ status <= 299

\* The statusCode field of the error classes of @/bff/errors.
StatusCodeOf(kind, status) ==
  CASE kind = "UnauthorizedError" -> 401
    [] kind = "ForbiddenError" -> 403
    [] kind = "NotFoundError" -> 404
    [] kind = "ValidationError" -> 422
    [] kind = "NetworkError" -> 0
    [] OTHER -> status

\* The error handleResponse throws for a response that is not ok.
handleResponse(status) ==
  LET kind == CASE status = 401 -> "UnauthorizedError"
                [] status = 403 -> "ForbiddenError"
                [] status = 404 -> "NotFoundError"
                [] status = 422 -> "ValidationError"
                [] OTHER -> "BFFError"
  IN [kind |-> kind, statusCode |-> StatusCodeOf(kind, status)]

\* The error fetchWithTimeout rejects with, on a timeout or a failed fetch.
NetworkError == [kind |-> "NetworkError", statusCode |-> StatusCodeOf("NetworkError", 0)]

NoError == [kind |-> "none", statusCode |-> 0]

\* A request() call that has not been made yet.
IdleRequest ==
  [ pc |-> "idle",
    retry |-> defaultRetry,
    maxAttempts |-> 0,
    attempt |-> 0,
    inflight |-> 0,         \* fetch() calls issued and not yet settled
    error |-> NoError,      \* what the call threw
    events |-> << >> ]      \* history of the call

VARIABLES
  req           \* the request() calls, by caller

requestVars == <<req>>

\* The number of events of r tagged tag.
RECURSIVE CountTag(_, _)
CountTag(evs, tag) ==
  IF evs = << >> THEN 0
  ELSE (IF Head(evs)[1] = tag THEN 1 ELSE 0) + CountTag(Tail(evs), tag)

\* A plausible slip: the loop test written attempt < maxAttempts.
LoopTop_StrictTest(r) ==
  IF r.attempt < r.maxAttempts
  THEN [r EXCEPT !.pc = "fetching", !.inflight = @ + 1,
                 !.events = Append(@, <<"fetch", r.attempt>>)]
  ELSE [r EXCEPT !.pc = "thrown",
                 !.error = [kind |-> "BFFError", statusCode |-> 500],
                 !.events = Append(@, <<"throw", "BFFError", 500>>)]

\* The top of the for loop: the loop test, then fetchWithTimeout of the attempt.
\* When the test fails the loop is left and line 277 throws.
LoopTop(r) ==
  IF r.attempt <= r.maxAttempts
  THEN [r EXCEPT !.pc = "fetching", !.inflight = @ + 1,
                 !.events = Append(@, <<"fetch", r.attempt>>)]
  ELSE [r EXCEPT !.pc = "thrown",
                 !.error = [kind |-> "BFFError", statusCode |-> 500],
                 !.events = Append(@, <<"throw", "BFFError", 500>>)]

\* A plausible slip: maxAttempts taken from the options whether retry is
\* enabled or not.
RequestEntry_IgnoresEnabled(retry) ==
  LoopTop([IdleRequest EXCEPT
             !.retry = retry,
             !.maxAttempts = retry.maxAttempts,
             !.attempt = 1])

\* request() up to its first await of fetchWithTimeout.
RequestEntry(retry) ==
  LoopTop([IdleRequest EXCEPT
             !.retry = retry,
             !.maxAttempts = IF retry.enabled THEN retry.maxAttempts ELSE 1,
             !.attempt = 1])

\* The try block after a response: handleResponse returned, recordSuccess, return.
\* The pair <<call, tracker>> after it.
OnSuccess(r, t, status) ==
  << [r EXCEPT !.pc = "returned",
               !.events = @ \o << <<"recordSuccess">>, <<"return", status>> >>],
     recordSuccess(t) >>

\* A plausible slip: recordFailure() called before the retry decision, so once
\* per failed attempt.
OnError_RecordEachAttempt(r, t, error) ==
  LET statusCode == error.statusCode
      shouldRetry == r.attempt < r.maxAttempts /\ isRetryableError(statusCode, r.retry)
  IN IF shouldRetry
     THEN << [r EXCEPT !.pc = "waiting",
                       !.events = @ \o << <<"recordFailure">>,
                                          <<"wait", calculateRetryDelay(r.attempt, r.retry)>> >>],
             recordFailure(t) >>
     ELSE << [r EXCEPT !.pc = "thrown", !.error = error,
                       !.events = @ \o << <<"recordFailure">>,
                                          <<"throw", error.kind, error.statusCode>> >>],
             recordFailure(t) >>

\* A plausible slip: the retry decision made on attempt <= maxAttempts.
OnError_RetryOnLast(r, t, error) ==
  LET statusCode == error.statusCode
      shouldRetry == r.attempt <= r.maxAttempts /\ isRetryableError(statusCode, r.retry)
  IN IF shouldRetry
     THEN << [r EXCEPT !.pc = "waiting",
                       !.events = Append(@, <<"wait", calculateRetryDelay(r.attempt, r.retry)>>)],
             t >>
     ELSE << [r EXCEPT !.pc = "thrown", !.error = error,
                       !.events = @ \o << <<"recordFailure">>,
                                          <<"throw", error.kind, error.statusCode>> >>],
             recordFailure(t) >>

\* A plausible slip: every failure retried while attempts remain.
OnError_RetryAll(r, t, error) ==
  LET shouldRetry == r.attempt < r.maxAttempts
  IN IF shouldRetry
     THEN << [r EXCEPT !.pc = "waiting",
                       !.events = Append(@, <<"wait", calculateRetryDelay(r.attempt, r.retry)>>)],
             t >>
     ELSE << [r EXCEPT !.pc = "thrown", !.error = error,
                       !.events = @ \o << <<"recordFailure">>,
                                          <<"throw", error.kind, error.statusCode>> >>],
             recordFailure(t) >>

\* A plausible slip: the retry issued at once, without awaiting the backoff wait.
OnError_NoWait(r, t, error) ==
  LET statusCode == error.statusCode
      shouldRetry == r.attempt < r.maxAttempts /\ isRetryableError(statusCode, r.retry)
  IN IF shouldRetry
     THEN << LoopTop([r EXCEPT !.attempt = @ + 1]), t >>
     ELSE << [r EXCEPT !.pc = "thrown", !.error = error,
                       !.events = @ \o << <<"recordFailure">>,
                                          <<"throw", error.kind, error.statusCode>> >>],
             recordFailure(t) >>

\* The catch block: the retry decision, then either the backoff wait or
\* recordFailure and the throw.  The pair <<call, tracker>> after it.
OnError(r, t, error) ==
  LET statusCode == error.statusCode   \* (error as BFFError).statusCode || 0
      shouldRetry == r.attempt < r.maxAttempts /\ isRetryableError(statusCode, r.retry)
  IN IF shouldRetry
     THEN << [r EXCEPT !.pc = "waiting",
                       !.events = Append(@, <<"wait", calculateRetryDelay(r.attempt, r.retry)>>)],
             t >>
     ELSE << [r EXCEPT !.pc = "thrown", !.error = error,
                       !.events = @ \o << <<"recordFailure">>,
                                          <<"throw", error.kind, error.statusCode>> >>],
             recordFailure(t) >>

\* ------------------------------------------------------ request actions
RequestInit == req = [p \in Requests |-> IdleRequest]

\* The retry options callers pass: the default with any maxAttempts, and the
\* default with retry disabled.
RetryInputs ==
  {[defaultRetry EXCEPT !.maxAttempts = m] : m \in 0..MaxAttempts}
    \cup {[defaultRetry EXCEPT !.enabled = FALSE]}

\* The retry options with retry disabled: the default with enabled false and
\* any maxAttempts.
DisabledRetryInputs ==
  {[defaultRetry EXCEPT !.enabled = FALSE, !.maxAttempts = m] : m \in 0..MaxAttempts}

\* A caller calls request(endpoint, {retry}).
StartRequest(p, retry) ==
  /\ req[p].pc = "idle"
  /\ req' = [req EXCEPT ![p] = RequestEntry(retry)]
  /\ UNCHANGED trackerVars

\* fetch() resolves first: the timer is cleared and handleResponse runs.
FetchResponds(p, status) ==
  /\ req[p].pc = "fetching"
  /\ LET r == [req[p] EXCEPT !.inflight = @ - 1,
                             !.events = Append(@, <<"status", status>>)]
         out == IF Ok(status) THEN OnSuccess(r, tracker, status)
                ELSE OnError(r, tracker, handleResponse(status))
     IN /\ req' = [req EXCEPT ![p] = out[1]]
        /\ tracker' = out[2]
  /\ trackerLog' = trackerLog

\* fetch() rejects first: the timer is cleared, the attempt fails with NetworkError.
FetchFails(p) ==
  /\ req[p].pc = "fetching"
  /\ LET r == [req[p] EXCEPT !.inflight = @ - 1,
                             !.events = Append(@, <<"neterr">>)]
         out == OnError(r, tracker, NetworkError)
     IN /\ req' = [req EXCEPT ![p] = out[1]]
        /\ tracker' = out[2]
  /\ trackerLog' = trackerLog

\* The timer fires first: the attempt fails with NetworkError and the fetch
\* is left running.
FetchTimesOut(p) ==
  /\ req[p].pc = "fetching"
  /\ LET r == [req[p] EXCEPT !.events = Append(@, <<"timeout">>)]
         out == OnError(r, tracker, NetworkError)
     IN /\ req' = [req EXCEPT ![p] = out[1]]
        /\ tracker' = out[2]
  /\ trackerLog' = trackerLog

\* A plausible slip: the response of an abandoned fetch still handled, as a
\* success that is recorded.
LateSettle_Recorded(p) ==
  /\ req[p].pc # "fetching"
  /\ req[p].inflight > 0
  /\ req' = [req EXCEPT ![p].inflight = @ - 1]
  /\ tracker' = recordSuccess(tracker)
  /\ trackerLog' = trackerLog

\* A fetch abandoned by its timeout settles: resolve/reject of a settled
\* promise does nothing.
LateSettle(p) ==
  /\ req[p].pc # "fetching"
  /\ req[p].inflight > 0
  /\ req' = [req EXCEPT ![p].inflight = @ - 1]
  /\ UNCHANGED trackerVars

\* await wait(delay) returns: continue, attempt++, the loop test, the next fetch.
WaitElapses(p) ==
  /\ req[p].pc = "waiting"
  /\ req' = [req EXCEPT ![p] = LoopTop([req[p] EXCEPT !.attempt = @ + 1])]
  /\ UNCHANGED trackerVars

\* --------------------------------------------------------- SocketStatus
DISCONNECTED == "disconnected"
CONNECTING == "connecting"
CONNECTED == "connected"
RECONNECTING == "reconnecting"
ERROR == "error"
SocketStatus == {DISCONNECTED, CONNECTING, CONNECTED, RECONNECTING, ERROR}

\* null, for a transport reference
NULL == 0
\* null, for a token, and a token fetchSocketAuthToken returned
NOTOKEN == "null"
TOKEN == "socket-token"

\* The names of the inbound events of the mapping table of
\* setupSocketEventMappings, and one that is not in the table.
MappedEvents == {"user:updated", "notification:new", "message:new", "data:updated"}
SocketEvents == MappedEvents \cup {"presence:ping"}

VARIABLES
  manager,      \* the SocketManager object: socket, status, authToken
  transports,   \* every socket.io client created so far, by creation order
  calls,        \* every connect() invocation so far, by invocation order
  lastEmit,     \* history: what the last step did with an application event:
                \* "none" (it was not an emit() call) | "dropped" (emit()
                \* returned at its guard) | "sent" (emit() reached socket.emit)
  afterLogout,  \* history: the last step was a logout signal whose disconnect()
                \* found a transport held
  loggedOut     \* history: the last step was a logout signal

socketVars == <<manager, transports, calls, lastEmit, afterLogout, loggedOut>>

\* The SocketManager after construction.
NewManager == [socket |-> NULL, status |-> DISCONNECTED, authToken |-> NOTOKEN]

\* The transport createSocketClient returns (autoConnect: false).
\*   state: "idle" | "opening" | "connected" | "lost" | "closed"
\*     socket.connected is state = "connected"; "lost" is a transport that is
\*     not connected and waits for its next reconnection attempt; "closed" is
\*     a transport the client closed with socket.disconnect().
\*   handlers: the manager's lifecycle listeners are attached
\*   callbacks: for each event name, the number of callbacks registered for
\*     it with manager.on (socket.on)
NewTransport ==
  [state |-> "idle", handlers |-> FALSE, callbacks |-> [e \in SocketEvents |-> 0]]

\* The manager and the transports together: what a manager method reads and
\* writes.  emitted: what the method did with an application event.
World(m, tr, emitted) == [m |-> m, tr |-> tr, emitted |-> emitted]

\* this.socket?.connected
IsConnected(w) ==
  /\ w.m.socket # NULL
  /\ w.tr[w.m.socket].state = "connected"

updateStatus(w, status) == [w EXCEPT !.m.status = status]

\* A lifecycle event of transport t reaches the listener setupSocketHandlers
\* attached for it.
FireHandler(w, t, status) ==
  IF w.tr[t].handlers THEN updateStatus(w, status) ELSE w

setupSocketHandlers(w) ==
  IF w.m.socket = NULL THEN w
  ELSE [w EXCEPT !.tr[w.m.socket].handlers = TRUE]

\* disconnectSocket of client.ts: socket.disconnect() only if socket.connected.
\* socket.disconnect() of a connected socket emits 'disconnect' synchronously.
disconnectSocket(w, t) ==
  IF w.tr[t].state = "connected"
  THEN FireHandler([w EXCEPT !.tr[t].state = "closed"], t, DISCONNECTED)
  ELSE w

disconnect(w) ==
  IF w.m.socket # NULL
  THEN updateStatus([disconnectSocket(w, w.m.socket) EXCEPT !.m.socket = NULL,
                                                            !.m.authToken = NOTOKEN],
                    DISCONNECTED)
  ELSE w

\* A plausible slip: the event handed to whatever transport is held.
emit_NoGuard(w) ==
  IF w.m.socket = NULL THEN [w EXCEPT !.emitted = "dropped"]
  ELSE [w EXCEPT !.emitted = "sent"]

\* emit(event, data): return at the guard, or this.socket.emit(event, data).
emit(w) ==
  IF ~IsConnected(w) THEN [w EXCEPT !.emitted = "dropped"]
  ELSE [w EXCEPT !.emitted = "sent"]

\* A connect() invocation.
\*   pc: "fetchToken" | "waitConn" | "waitAuth" | "resolved" | "rejected"
\*   loginAfterLogout: the invocation was made by handleLogin, for a login
\*     signal that came right after a logout-induced disconnect
\*   sock: the transport the invocation created (NULL: none yet)
\*   token: the token the invocation fetched (NOTOKEN: none)
\*   fetches: fetchSocketAuthToken calls made
\*   created: transports created
\*   handshakes: the transports authenticate was emitted on
\* sock, token and handshakes are kept while the invocation is in flight.
NewCall(loginAfterLogout) ==
  [ pc |-> "fetchToken", loginAfterLogout |-> loginAfterLogout,
    sock |-> NULL, token |-> NOTOKEN, fetches |-> 1, created |-> 0,
    handshakes |-> << >> ]

\* A connect() invocation that has settled: only how it settled is kept
\* ("resolved": the promise resolved; "rejected": it rejected).
SettledCall(how) ==
  [ pc |-> how, loginAfterLogout |-> FALSE,
    sock |-> NULL, token |-> NOTOKEN, fetches |-> 1, created |-> 1,
    handshakes |-> << >> ]

\* A plausible slip: the already-connected test left out.
connectEntry_NoGuard(w, cs, loginAfterLogout) ==
  << updateStatus(w, CONNECTING), Append(cs, NewCall(loginAfterLogout)) >>

\* connect() up to its first await: the already-connected test,
\* updateStatus(CONNECTING), the call of fetchSocketAuthToken.
\* The pair <<world, calls>> after it.
connectEntry(w, cs, loginAfterLogout) ==
  IF IsConnected(w)
  THEN << w, cs >>
  ELSE << updateStatus(w, CONNECTING), Append(cs, NewCall(loginAfterLogout)) >>

\* A plausible slip: the catch block rethrows without publishing ERROR.
connectCatch_NoStatus(w, cs, c) ==
  << w, [cs EXCEPT ![c] = SettledCall("rejected")] >>

\* The catch block of connect().
connectCatch(w, cs, c) ==
  << updateStatus(w, ERROR), [cs EXCEPT ![c] = SettledCall("rejected")] >>

\* A plausible slip: two transports created by one connect().
afterToken_TwoTransports(w, cs, c, token) ==
  LET t == Len(w.tr) + 2
      w1 == [w EXCEPT !.m.authToken = token,
                      !.tr = w.tr \o <<NewTransport, NewTransport>>,
                      !.m.socket = t]
      w2 == [setupSocketHandlers(w1) EXCEPT !.tr[t].state = "opening"]
  IN << w2, [cs EXCEPT ![c].pc = "waitConn", ![c].sock = t, ![c].token = token,
                       ![c].created = @ + 2] >>

\* connect() from the token to its await of waitForConnection: the token is
\* kept, the transport created, the lifecycle listeners attached,
\* socket.connect() called.  (createSocketClient returns null only during
\* SSR, where connect() has returned before, or when io() throws.)
afterToken(w, cs, c, token) ==
  LET t == Len(w.tr) + 1
      w1 == [w EXCEPT !.m.authToken = token,
                      !.tr = Append(w.tr, NewTransport),
                      !.m.socket = t]
      w2 == [setupSocketHandlers(w1) EXCEPT !.tr[t].state = "opening"]
  IN << w2, [cs EXCEPT ![c].pc = "waitConn", ![c].sock = t, ![c].token = token,
                       ![c].created = @ + 1] >>

\* A plausible slip: the handshake skipped.
afterConnection_NoAuth(w, cs, c) ==
  << updateStatus(w, CONNECTED), [cs EXCEPT ![c] = SettledCall("resolved")] >>

\* connect() after waitForConnection resolved: the handshake if a token is
\* held, else CONNECTED.  authenticateSocket(this.socket, this.authToken)
\* with this.socket null throws inside the promise, which rejects.
afterConnection(w, cs, c) ==
  IF w.m.authToken # NOTOKEN
  THEN IF w.m.socket = NULL
       THEN connectCatch(w, cs, c)
       ELSE << w,
               [cs EXCEPT ![c].pc = "waitAuth",
                          ![c].handshakes = Append(@, w.m.socket)] >>
  ELSE << updateStatus(w, CONNECTED), [cs EXCEPT ![c] = SettledCall("resolved")] >>

\* connect() after authenticateSocket resolved.
afterAuth(w, cs, c, authSuccess) ==
  IF ~authSuccess
  THEN << updateStatus(disconnect(w), ERROR), [cs EXCEPT ![c] = SettledCall("resolved")] >>
  ELSE << updateStatus(w, CONNECTED), [cs EXCEPT ![c] = SettledCall("resolved")] >>

\* The call whose waitForConnection listens on transport t, if any.
Waiters(cs, t) == {c \in 1..Len(cs) : cs[c].pc = "waitConn" /\ cs[c].sock = t}

\* The once('connect') listener of waitForConnection runs for transport t:
\* the call that waits for t (each call waits for the transport it created)
\* continues after its await.
ResolveWaiter(w, cs, t) ==
  IF Waiters(cs, t) = {} THEN <<w, cs>>
  ELSE afterConnection(w, cs, CHOOSE c \in Waiters(cs, t) : TRUE)

\* The once('connect_error') listener of waitForConnection runs for transport t.
RejectWaiter(w, cs, t) ==
  IF Waiters(cs, t) = {} THEN <<w, cs>>
  ELSE connectCatch(w, cs, CHOOSE c \in Waiters(cs, t) : TRUE)

\* ------------------------------------------------------- socket actions
SocketInit ==
  /\ manager = NewManager
  /\ transports = << >>
  /\ calls = << >>
  /\ lastEmit = "none"
  /\ afterLogout = FALSE
  /\ loggedOut = FALSE

TheWorld == World(manager, transports, "none")

Becomes(out) ==
  /\ manager' = out[1].m
  /\ transports' = out[1].tr
  /\ lastEmit' = out[1].emitted
  /\ calls' = out[2]

\* A caller calls connect().
CallConnect ==
  /\ IsConnected(TheWorld) \/ Len(calls) < MaxConnectCalls
  /\ Becomes(connectEntry(TheWorld, calls, FALSE))
  /\ afterLogout' = FALSE
  /\ loggedOut' = FALSE

\* A caller calls disconnect().
CallDisconnect ==
  /\ Becomes(<<disconnect(TheWorld), calls>>)
  /\ afterLogout' = FALSE
  /\ loggedOut' = FALSE

\* The window event auth:logout: handleLogout.
LogoutSignal ==
  /\ Becomes(<<disconnect(TheWorld), calls>>)
  /\ afterLogout' = (manager.socket # NULL)
  /\ loggedOut' = TRUE

\* The window event auth:login: handleLogin up to the first await of connect().
LoginSignal ==
  /\ Len(calls) < MaxConnectCalls
  /\ LET w == IF manager.socket # NULL THEN disconnect(TheWorld) ELSE TheWorld
     IN Becomes(connectEntry(w, calls, afterLogout))
  /\ afterLogout' = FALSE
  /\ loggedOut' = FALSE

\* A caller calls emit(event, data).
CallEmit ==
  /\ Becomes(<<emit(TheWorld), calls>>)
  /\ afterLogout' = FALSE
  /\ loggedOut' = FALSE

\* fetchSocketAuthToken resolves, with a token (the c-th token) or with null.
TokenFetched(c, hasToken) ==
  /\ calls[c].pc = "fetchToken"
  /\ Becomes(afterToken(TheWorld, calls, c, IF hasToken THEN TOKEN ELSE NOTOKEN))
  /\ afterLogout' = FALSE
  /\ loggedOut' = FALSE

\* Transport t connects: 'connect' runs the lifecycle listener, then the
\* once-listener of the waitForConnection that waits for t.
TransportConnect(t) ==
  /\ transports[t].state = "opening"
  /\ LET w == FireHandler([TheWorld EXCEPT !.tr[t].state = "connected"], t, CONNECTED)
     IN Becomes(ResolveWaiter(w, calls, t))
  /\ afterLogout' = FALSE
  /\ loggedOut' = FALSE

\* Transport t fails to connect: 'connect_error'.
TransportConnectError(t) ==
  /\ transports[t].state = "opening"
  /\ LET w == FireHandler([TheWorld EXCEPT !.tr[t].state = "lost"], t, ERROR)
     IN Becomes(RejectWaiter(w, calls, t))
  /\ afterLogout' = FALSE
  /\ loggedOut' = FALSE

\* The connection of transport t is lost: 'disconnect'.
TransportDrop(t) ==
  /\ transports[t].state = "connected"
  /\ Becomes(<<FireHandler([TheWorld EXCEPT !.tr[t].state = "lost"], t, DISCONNECTED),
               calls>>)
  /\ afterLogout' = FALSE
  /\ loggedOut' = FALSE

\* Transport t tries to connect again: 'reconnect_attempt'.
TransportReconnectAttempt(t) ==
  /\ transports[t].state = "lost"
  /\ Becomes(<<FireHandler([TheWorld EXCEPT !.tr[t].state = "opening"], t, RECONNECTING),
               calls>>)
  /\ afterLogout' = FALSE
  /\ loggedOut' = FALSE

\* The timer of waitForConnection fires: the promise rejects.
ConnectTimeout(c) ==
  /\ calls[c].pc = "waitConn"
  /\ Becomes(connectCatch(TheWorld, calls, c))
  /\ afterLogout' = FALSE
  /\ loggedOut' = FALSE

\* The server acknowledges authenticate on the transport it was emitted on.
AuthAck(c, success) ==
  /\ calls[c].pc = "waitAuth"
  /\ transports[calls[c].handshakes[Len(calls[c].handshakes)]].state = "connected"
  /\ Becomes(afterAuth(TheWorld, calls, c, success))
  /\ afterLogout' = FALSE
  /\ loggedOut' = FALSE

\* The 5 s timer of authenticateSocket fires: resolve(false).
AuthTimeout(c) ==
  /\ calls[c].pc = "waitAuth"
  /\ Becomes(afterAuth(TheWorld, calls, c, FALSE))
  /\ afterLogout' = FALSE
  /\ loggedOut' = FALSE

\* --------------------------------------------------- event-to-cache bridge
\* The payloads the server sends with an event.
Payloads ==
  { [channelId |-> "general", resourceType |-> "orders", resourceId |-> "o-1"],
    [channelId |-> "random", resourceType |-> "users", resourceId |-> "u-7"] }

\* The payloads sent with event: any for the events whose keys are computed
\* from the payload, one for the others.
PayloadsOf(event) ==
  IF event \in {"message:new", "data:updated"} THEN Payloads
  ELSE {[channelId |-> "general", resourceType |-> "orders", resourceId |-> "o-1"]}

\* The mappings array of setupSocketEventMappings (queryKeys: see queryKeys).
Mappings ==
  << [socketEvent |-> "user:updated", action |-> "invalidate"],
     [socketEvent |-> "notification:new", action |-> "refetch"],
     [socketEvent |-> "message:new", action |-> "invalidate"],
     [socketEvent |-> "data:updated", action |-> "invalidate"] >>

\* mapping.queryKeys, applied to the payload where it is a function.
queryKeys(mapping, data) ==
  CASE mapping.socketEvent = "user:updated" -> <<"users", "me">>
    [] mapping.socketEvent = "notification:new" -> <<"notifications">>
    [] mapping.socketEvent = "message:new" -> <<"messages", data.channelId>>
    [] mapping.socketEvent = "data:updated" -> <<data.resourceType, data.resourceId>>

\* What the handler of createInvalidationHandler does with the cache:
\* invalidateQueries for each key, in order.
createInvalidationHandler(keys) ==
  [k \in 1..Len(keys) |-> [op |-> "invalidate", key |-> keys[k], data |-> "none"]]

\* What the handler of createRefetchHandler does with the cache.
createRefetchHandler(keys) ==
  [k \in 1..Len(keys) |-> [op |-> "refetch", key |-> keys[k], data |-> "none"]]

\* What the handler of createUpdateHandler does with the cache: setQueryData
\* with a value computed from the payload.
createUpdateHandler(keys, data) ==
  << [op |-> "setData", key |-> keys, data |-> data] >>

\* A plausible slip: the mappings that are not 'refetch' given an update handler.
HandlerOf_Update(mapping, data) ==
  IF mapping.action = "refetch"
  THEN createRefetchHandler(queryKeys(mapping, data))
  ELSE createUpdateHandler(queryKeys(mapping, data), data)

\* The handler setupSocketEventMappings creates for a mapping, run on a payload.
HandlerOf(mapping, data) ==
  IF mapping.action = "refetch"
  THEN createRefetchHandler(queryKeys(mapping, data))
  ELSE createInvalidationHandler(queryKeys(mapping, data))

\* A plausible slip: the callback kept by the manager and attached to whatever
\* transport exists, also to none.
on_AnyTransport(w, event) ==
  IF Len(w.tr) = 0 THEN w
  ELSE [w EXCEPT !.tr = [t \in 1..Len(w.tr) |->
                           [w.tr[t] EXCEPT !.callbacks[event] = @ + 1]]]

\* manager.on(event, callback)
on(w, event) ==
  IF w.m.socket = NULL THEN w
  ELSE [w EXCEPT !.tr[w.m.socket].callbacks[event] = @ + 1]

\* manager.off(event)
off(w, event) ==
  IF w.m.socket = NULL THEN w
  ELSE [w EXCEPT !.tr[w.m.socket].callbacks[event] = 0]

\* mappings.forEach: one manager.on per mapping.
RECURSIVE RegisterAll(_, _)
RegisterAll(w, ms) ==
  IF ms = << >> THEN w
  ELSE RegisterAll(on(w, Head(ms).socketEvent), Tail(ms))

setupSocketEventMappings(w) == RegisterAll(w, Mappings)

cleanupSocketEventMappings(w) ==
  off(off(off(off(w, "user:updated"), "notification:new"), "message:new"), "data:updated")

\* The cache operations of n runs of a handler.
RECURSIVE Repeat(_, _)
Repeat(ops, n) == IF n <= 0 THEN << >> ELSE ops \o Repeat(ops, n - 1)

\* The cache operations issued when transport t delivers event with data:
\* every callback registered for the event on t runs once.
Dispatch(tr, t, event, data) ==
  IF event \in MappedEvents
  THEN LET mapping == CHOOSE m \in {Mappings[i] : i \in 1..Len(Mappings)} :
                         m.socketEvent = event
       IN Repeat(HandlerOf(mapping, data), tr[t].callbacks[event])
  ELSE << >>

VARIABLES
  bridge        \* history: the inbound event the last step delivered, if any, and
                \* the cache operations its callbacks issued

bridgeVars == <<bridge>>

\* The last step delivered no inbound event.
NoInbound == [on |-> NULL, event |-> "none", data |-> "none", ops |-> << >>]

BridgeInit == bridge = NoInbound

\* The registrations of the mapping handlers in place on transports 1..n.
RECURSIVE Registered(_, _)
Registered(tr, n) ==
  IF n = 0 THEN 0 ELSE tr[n].callbacks["user:updated"] + Registered(tr, n - 1)

\* A caller calls setupSocketEventMappings(queryClient).
CallSetupSocketEventMappings ==
  /\ manager.socket # NULL => Registered(transports, Len(transports)) < MaxSetupCalls
  /\ Becomes(<<setupSocketEventMappings(TheWorld), calls>>)
  /\ afterLogout' = FALSE
  /\ loggedOut' = FALSE
  /\ bridge' = NoInbound

\* A caller calls cleanupSocketEventMappings().
CallCleanupSocketEventMappings ==
  /\ Becomes(<<cleanupSocketEventMappings(TheWorld), calls>>)
  /\ afterLogout' = FALSE
  /\ loggedOut' = FALSE
  /\ bridge' = NoInbound

\* The server sends event with data over the connected transport t.
InboundEvent(t, event, data) ==
  /\ transports[t].state = "connected"
  /\ bridge' = [on |-> t, event |-> event, data |-> data,
                ops |-> Dispatch(transports, t, event, data)]
  /\ Becomes(<<TheWorld, calls>>)
  /\ afterLogout' = FALSE
  /\ loggedOut' = FALSE

vars == <<tracker, trackerLog, req, manager, transports, calls, lastEmit, afterLogout,
          loggedOut, policy, bridge>>

Init == TrackerInit /\ RequestInit /\ SocketInit /\ PolicyInit /\ BridgeInit

NextTracker ==
  \/ CallRecordFailure /\ UNCHANGED <<requestVars, socketVars, policyVars, bridgeVars>>
  \/ CallRecordSuccess /\ UNCHANGED <<requestVars, socketVars, policyVars, bridgeVars>>
  \/ CallForceDegraded /\ UNCHANGED <<requestVars, socketVars, policyVars, bridgeVars>>
  \/ CallForceRecover /\ UNCHANGED <<requestVars, socketVars, policyVars, bridgeVars>>
  \/ CallReset /\ UNCHANGED <<requestVars, socketVars, policyVars, bridgeVars>>
  \/ \E l \in Listeners : CallSubscribe(l) /\ UNCHANGED <<requestVars, socketVars, policyVars, bridgeVars>>
  \/ \E l \in Listeners : CallUnsubscribe(l) /\ UNCHANGED <<requestVars, socketVars, policyVars, bridgeVars>>
  \/ RecoveryTick /\ UNCHANGED <<requestVars, socketVars, policyVars, bridgeVars>>

NextRequest ==
  \/ \E p \in Requests, retry \in RetryInputs :
        StartRequest(p, retry) /\ UNCHANGED <<socketVars, policyVars, bridgeVars>>
  \/ \E p \in Requests, s \in Statuses : FetchResponds(p, s) /\ UNCHANGED <<socketVars, policyVars, bridgeVars>>
  \/ \E p \in Requests : FetchFails(p) /\ UNCHANGED <<socketVars, policyVars, bridgeVars>>
  \/ \E p \in Requests : FetchTimesOut(p) /\ UNCHANGED <<socketVars, policyVars, bridgeVars>>
  \/ \E p \in Requests : LateSettle(p) /\ UNCHANGED <<socketVars, policyVars, bridgeVars>>
  \/ \E p \in Requests : WaitElapses(p) /\ UNCHANGED <<socketVars, policyVars, bridgeVars>>

\* request() called with retry disabled only (the backoff wait is never
\* entered: C20).
NextRetryOff ==
  \/ \E p \in Requests, retry \in DisabledRetryInputs :
        StartRequest(p, retry) /\ UNCHANGED <<socketVars, policyVars, bridgeVars>>
  \/ \E p \in Requests, s \in Statuses : FetchResponds(p, s) /\ UNCHANGED <<socketVars, policyVars, bridgeVars>>
  \/ \E p \in Requests : FetchFails(p) /\ UNCHANGED <<socketVars, policyVars, bridgeVars>>
  \/ \E p \in Requests : FetchTimesOut(p) /\ UNCHANGED <<socketVars, policyVars, bridgeVars>>
  \/ \E p \in Requests : LateSettle(p) /\ UNCHANGED <<socketVars, policyVars, bridgeVars>>

\* The call followed to its end (calls are independent of each other).
TheCaller == 1

\* What the backend may answer to an attempt of the call followed: every
\* status handleResponse tells apart, and retryable ones.
AnswerStatuses == Statuses \cup {403, 422, 429, 500}

\* The attempt of call p settles: a response, a failed fetch or the timeout.
AttemptSettles(p) ==
  /\ \/ \E s \in AnswerStatuses : FetchResponds(p, s)
     \/ FetchFails(p)
     \/ FetchTimesOut(p)
  /\ UNCHANGED <<socketVars, policyVars, bridgeVars>>

\* The backoff wait of call p elapses.
BackoffElapses(p) == WaitElapses(p) /\ UNCHANGED <<socketVars, policyVars, bridgeVars>>

\* One request() call, with retry enabled or not, from the call to its end.
NextOneRequest ==
  \/ \E retry \in RetryInputs \cup DisabledRetryInputs :
        StartRequest(TheCaller, retry) /\ UNCHANGED <<socketVars, policyVars, bridgeVars>>
  \/ AttemptSettles(TheCaller)
  \/ LateSettle(TheCaller) /\ UNCHANGED <<socketVars, policyVars, bridgeVars>>
  \/ BackoffElapses(TheCaller)

\* Every step of the socket manager except a caller's emit(): the connect
\* sequences, disconnect(), the auth signals and the transport events.
NextConnect ==
  \/ CallConnect /\ UNCHANGED <<trackerVars, requestVars, policyVars, bridgeVars>>
  \/ CallDisconnect /\ UNCHANGED <<trackerVars, requestVars, policyVars, bridgeVars>>
  \/ LogoutSignal /\ UNCHANGED <<trackerVars, requestVars, policyVars, bridgeVars>>
  \/ LoginSignal /\ UNCHANGED <<trackerVars, requestVars, policyVars, bridgeVars>>
  \/ \E c \in 1..Len(calls), tok \in BOOLEAN :
        TokenFetched(c, tok) /\ UNCHANGED <<trackerVars, requestVars, policyVars, bridgeVars>>
  \/ \E t \in 1..Len(transports) : TransportConnect(t) /\ UNCHANGED <<trackerVars, requestVars, policyVars, bridgeVars>>
  \/ \E t \in 1..Len(transports) :
        TransportConnectError(t) /\ UNCHANGED <<trackerVars, requestVars, policyVars, bridgeVars>>
  \/ \E t \in 1..Len(transports) : TransportDrop(t) /\ UNCHANGED <<trackerVars, requestVars, policyVars, bridgeVars>>
  \/ \E t \in 1..Len(transports) :
        TransportReconnectAttempt(t) /\ UNCHANGED <<trackerVars, requestVars, policyVars, bridgeVars>>
  \/ \E c \in 1..Len(calls) : ConnectTimeout(c) /\ UNCHANGED <<trackerVars, requestVars, policyVars, bridgeVars>>
  \/ \E c \in 1..Len(calls), ok \in BOOLEAN :
        AuthAck(c, ok) /\ UNCHANGED <<trackerVars, requestVars, policyVars, bridgeVars>>
  \/ \E c \in 1..Len(calls) : AuthTimeout(c) /\ UNCHANGED <<trackerVars, requestVars, policyVars, bridgeVars>>

NextSocket ==
  \/ NextConnect
  \/ CallEmit /\ UNCHANGED <<trackerVars, requestVars, policyVars, bridgeVars>>

NextPolicy ==
  \/ CallIsRetryableError /\ UNCHANGED <<trackerVars, requestVars, socketVars, bridgeVars>>
  \/ CallCalculateRetryDelay /\ UNCHANGED <<trackerVars, requestVars, socketVars, bridgeVars>>

\* No connect() invocation is in flight.
NoConnectInFlight == \A c \in 1..Len(calls) : calls[c].pc \in {"resolved", "rejected"}

\* The bridge, with a manager whose connect sequences run one at a time (as
\* useSocket runs them: it awaits connect(), then calls
\* setupSocketEventMappings), connections that are lost and come back, and
\* handshakes that succeed or fail.
NextBridge ==
  \/ CallSetupSocketEventMappings /\ UNCHANGED <<trackerVars, requestVars, policyVars>>
  \/ CallCleanupSocketEventMappings /\ UNCHANGED <<trackerVars, requestVars, policyVars>>
  \/ \E t \in 1..Len(transports), e \in SocketEvents : \E d \in PayloadsOf(e) :
        InboundEvent(t, e, d) /\ UNCHANGED <<trackerVars, requestVars, policyVars>>
  \/ NoConnectInFlight /\ CallConnect /\ bridge' = NoInbound
        /\ UNCHANGED <<trackerVars, requestVars, policyVars>>
  \/ CallDisconnect /\ bridge' = NoInbound /\ UNCHANGED <<trackerVars, requestVars, policyVars>>
  \/ NoConnectInFlight /\ LoginSignal /\ bridge' = NoInbound
        /\ UNCHANGED <<trackerVars, requestVars, policyVars>>
  \/ \E c \in 1..Len(calls), tok \in BOOLEAN :
        TokenFetched(c, tok) /\ bridge' = NoInbound
          /\ UNCHANGED <<trackerVars, requestVars, policyVars>>
  \/ \E t \in 1..Len(transports) :
        TransportConnect(t) /\ bridge' = NoInbound
          /\ UNCHANGED <<trackerVars, requestVars, policyVars>>
  \/ \E t \in 1..Len(transports) :
        TransportDrop(t) /\ bridge' = NoInbound
          /\ UNCHANGED <<trackerVars, requestVars, policyVars>>
  \/ \E t \in 1..Len(transports) :
        TransportReconnectAttempt(t) /\ bridge' = NoInbound
          /\ UNCHANGED <<trackerVars, requestVars, policyVars>>
  \/ \E c \in 1..Len(calls), ok \in BOOLEAN :
        AuthAck(c, ok) /\ bridge' = NoInbound
          /\ UNCHANGED <<trackerVars, requestVars, policyVars>>

Next ==
  \/ NextTracker \/ NextRequest \/ NextRetryOff \/ NextOneRequest
  \/ NextSocket \/ NextPolicy \/ NextBridge

Spec == Init /\ [][Next]_vars

InitAny == TrackerInitAny /\ RequestInit /\ SocketInit /\ PolicyInit /\ BridgeInit

SpecTracker == InitAny /\ [][NextTracker]_vars

SpecRequest == Init /\ [][NextRequest]_vars

SpecSocket == Init /\ [][NextSocket]_vars

SpecConnect == Init /\ [][NextConnect]_vars

InitPolicy == TrackerInit /\ RequestInit /\ SocketInit /\ PolicyInitAny /\ BridgeInit

SpecPolicy == InitPolicy /\ [][NextPolicy]_vars

SpecBridge == Init /\ [][NextBridge]_vars

SpecRetryOff == Init /\ [][NextRetryOff]_vars

\* One request() call whose attempts all settle (the timer of
\* fetchWithTimeout bounds each) and whose backoff waits all elapse.
SpecOneRequestFair ==
  /\ Init
  /\ [][NextOneRequest]_vars
  /\ WF_vars(AttemptSettles(TheCaller))
  /\ WF_vars(BackoffElapses(TheCaller))

\* ================================================================ tracker
\* The number of entries of the history log equal to name.
RECURSIVE CountLog(_, _)
CountLog(log, name) ==
  IF log = << >> THEN 0
  ELSE (IF Head(log) = name THEN 1 ELSE 0) + CountLog(Tail(log), name)

\* The history holds nothing but recordFailure() calls (and subscriptions,
\* which do not touch the status or the counter).
OnlyFailuresSoFar ==
  \A i \in 1..Len(trackerLog) :
     trackerLog[i] \in {"recordFailure", "subscribe", "unsubscribe"}

\* C1: from a fresh tracker with threshold N, after k consecutive
\* recordFailure() calls the counter is k, the status is ONLINE while k < N and
\* DEGRADED once k >= N.
C1_Threshold ==
  OnlyFailuresSoFar =>
    LET k == CountLog(trackerLog, "recordFailure")
        N == tracker.maxConsecutiveFailures
    IN /\ tracker.consecutiveFailures = k
       /\ k < N => tracker.status = ONLINE
       /\ k >= N => tracker.status = DEGRADED

\* The default tracker right after its 3rd consecutive recordFailure().
C1_Witness ==
  /\ trackerLog = <<"recordFailure", "recordFailure", "recordFailure">>
  /\ tracker.maxConsecutiveFailures = DefaultMaxFailures
  /\ tracker.status = DEGRADED

\* C2: right after recordSuccess() the status is ONLINE and the counter 0, and
\* a recordFailure() that follows it directly leaves the counter at 1.
C2_SuccessResets ==
  LET n == Len(trackerLog)
  IN /\ (n >= 1 /\ trackerLog[n] = "recordSuccess") =>
          (tracker.status = ONLINE /\ tracker.consecutiveFailures = 0)
     /\ (n >= 2 /\ trackerLog[n - 1] = "recordSuccess" /\ trackerLog[n] = "recordFailure") =>
          tracker.consecutiveFailures = 1

\* The default tracker driven to DEGRADED, then one recordSuccess(), then one
\* recordFailure(): the failure counts as number 1.
C2_Witness ==
  /\ trackerLog = <<"recordFailure", "recordFailure", "recordFailure",
                    "recordSuccess", "recordFailure">>
  /\ tracker.maxConsecutiveFailures = DefaultMaxFailures
  /\ tracker.consecutiveFailures = 1
  /\ tracker.status = ONLINE

\* =============================================================== requests
Settled(r) == r.pc \in {"returned", "thrown"}

\* The number of request() calls that have thrown.
ThrownCount == Cardinality({p \in Requests : req[p].pc = "thrown"})

\* C3: a request() call with maxAttempts >= 1 makes no tracker update before
\* it settles, exactly one recordSuccess() and no recordFailure() when it
\* returns, exactly one recordFailure() and no recordSuccess() when it throws,
\* whatever the number of attempts; so the tracker's counter never exceeds the
\* number of calls that have thrown.
C3_OneTrackerUpdate ==
  /\ \A p \in Requests :
       LET r == req[p]
           s == CountTag(r.events, "recordSuccess")
           f == CountTag(r.events, "recordFailure")
       IN /\ r.pc = "returned" => (s = 1 /\ f = 0)
          /\ (r.pc = "thrown" /\ r.maxAttempts >= 1) => (s = 0 /\ f = 1)
          /\ ~Settled(r) => (s = 0 /\ f = 0)
  /\ tracker.consecutiveFailures <= ThrownCount

\* A call that threw after three attempts and counted as one failure.
C3_Witness ==
  \E p \in Requests :
     /\ req[p].pc = "thrown"
     /\ CountTag(req[p].events, "fetch") = 3
     /\ CountTag(req[p].events, "recordFailure") = 1
     /\ tracker.consecutiveFailures = 1

\* Every attempt of r made so far was answered, and with status 503.
AllAnswers503(r) ==
  \A i \in 1..Len(r.events) :
     r.events[i][1] \in {"status", "neterr", "timeout"} => r.events[i] = <<"status", 503>>

\* C4: a settled request() call with retry enabled and maxAttempts = 3 whose
\* every attempt was answered 503 made exactly 3 attempts, waited
\* calculateRetryDelay(k, config) after attempt k = 1, 2, called recordFailure()
\* once, after the 3rd attempt, and threw the typed error of the 503.
C4_AllUnavailable ==
  \A p \in Requests :
     LET r == req[p]
     IN (r.retry.enabled /\ r.retry.maxAttempts = 3 /\ Settled(r) /\ AllAnswers503(r)) =>
          /\ r.pc = "thrown"
          /\ r.error = [kind |-> "BFFError", statusCode |-> 503]
          /\ r.events = << <<"fetch", 1>>, <<"status", 503>>,
                           <<"wait", calculateRetryDelay(1, r.retry)>>,
                           <<"fetch", 2>>, <<"status", 503>>,
                           <<"wait", calculateRetryDelay(2, r.retry)>>,
                           <<"fetch", 3>>, <<"status", 503>>,
                           <<"recordFailure">>, <<"throw", "BFFError", 503>> >>

\* Such a call, with the default delays of 1000 ms and 2000 ms.
C4_Witness ==
  \E p \in Requests :
     /\ req[p].retry = defaultRetry
     /\ req[p].pc = "thrown"
     /\ req[p].events = << <<"fetch", 1>>, <<"status", 503>>, <<"wait", 1000>>,
                           <<"fetch", 2>>, <<"status", 503>>, <<"wait", 2000>>,
                           <<"fetch", 3>>, <<"status", 503>>,
                           <<"recordFailure">>, <<"throw", "BFFError", 503>> >>

\* C5: a request() call whose first attempt is answered with a status that is
\* neither ok nor in retryableStatusCodes has thrown at once, whatever
\* maxAttempts: one attempt, no wait, the typed error of that answer
\* (NotFoundError for 404, UnauthorizedError for 401).
C5_NonRetryableSurfaces ==
  \A p \in Requests :
     LET r == req[p]
     IN (/\ Len(r.events) >= 2
         /\ r.events[2][1] = "status"
         /\ ~Ok(r.events[2][2])
         /\ r.events[2][2] \notin r.retry.retryableStatusCodes) =>
          /\ r.pc = "thrown"
          /\ CountTag(r.events, "fetch") = 1
          /\ CountTag(r.events, "wait") = 0
          /\ r.error.statusCode = r.events[2][2]
          /\ r.events[2][2] = 404 => r.error.kind = "NotFoundError"
          /\ r.events[2][2] = 401 => r.error.kind = "UnauthorizedError"

\* A call with retry enabled and three attempts allowed that was answered 404.
C5_Witness ==
  \E p \in Requests :
     /\ req[p].retry = defaultRetry
     /\ req[p].pc = "thrown"
     /\ req[p].error = [kind |-> "NotFoundError", statusCode |-> 404]
     /\ req[p].events = << <<"fetch", 1>>, <<"status", 404>>,
                           <<"recordFailure">>, <<"throw", "NotFoundError", 404>> >>

\* C6: an attempt answered ok makes request() return, with nothing thrown,
\* one recordSuccess() and no recordFailure(), however many retryable failures
\* came before; a retryable error is thrown only by the last attempt allowed;
\* and while no call has thrown the tracker has counted no failure.
C6_RetryThenSuccess ==
  /\ \A p \in Requests :
       LET r == req[p]
       IN /\ (\E i \in 1..Len(r.events) :
                 r.events[i][1] = "status" /\ Ok(r.events[i][2])) =>
               /\ r.pc = "returned"
               /\ r.error = NoError
               /\ CountTag(r.events, "recordSuccess") = 1
               /\ CountTag(r.events, "recordFailure") = 0
               /\ CountTag(r.events, "throw") = 0
          /\ (/\ r.pc = "thrown"
              /\ r.maxAttempts >= 1
              /\ r.retry.enabled
              /\ r.error.statusCode \in r.retry.retryableStatusCodes) =>
               r.attempt = r.maxAttempts
  /\ ThrownCount = 0 => (tracker.consecutiveFailures = 0 /\ tracker.status = ONLINE)

\* A call that returned on its 3rd attempt, after two attempts answered 503.
C6_Witness ==
  \E p \in Requests :
     /\ req[p].pc = "returned"
     /\ req[p].events = << <<"fetch", 1>>, <<"status", 503>>, <<"wait", 1000>>,
                           <<"fetch", 2>>, <<"status", 503>>, <<"wait", 2000>>,
                           <<"fetch", 3>>, <<"status", 200>>,
                           <<"recordSuccess">>, <<"return", 200>> >>
     /\ tracker.consecutiveFailures = 0

\* ================================================================= socket
\* The transports created and not closed.
LiveTransports == {t \in 1..Len(transports) : transports[t].state # "closed"}

\* C7: in every reachable state at most one transport that was created and
\* not yet closed exists.
C7_SingleLiveTransport == Cardinality(LiveTransports) <= 1

\* C8: a connect() call made while the manager's status is CONNECTED starts no
\* connect sequence (no token fetch, hence no transport and no handshake) and
\* leaves the status, the held transport and the held token as they were.
C8_ConnectIdempotent ==
  [][(CallConnect /\ manager.status = CONNECTED) =>
       (manager' = manager /\ transports' = transports /\ calls' = calls)]_vars

\* C9: an emit() call made while the manager is not connected (isConnected()
\* is false, as right after disconnect()) returns at its guard: the event is
\* dropped, and neither the manager nor any transport changes; and an
\* application event reaches a transport only in the step of an emit() call
\* made while the manager is connected, never in a later step.
C9_EmitNoOp ==
  [][/\ (CallEmit /\ ~IsConnected(TheWorld)) =>
          (lastEmit' = "dropped" /\ manager' = manager /\ transports' = transports)
     /\ lastEmit' = "sent" =>
          (CallEmit /\ IsConnected(TheWorld) /\ transports' = transports)]_vars

\* emit() was just called after a disconnect() that closed the transport.
C9_Witness ==
  /\ lastEmit = "dropped"
  /\ manager.socket = NULL
  /\ manager.status = DISCONNECTED
  /\ \E t \in 1..Len(transports) : transports[t].state = "closed"

\* The number of connect() invocations in flight that emitted authenticate
\* on transport t.
HandshakesOn(t) ==
  Cardinality({c \in 1..Len(calls) :
                 \E i \in 1..Len(calls[c].handshakes) : calls[c].handshakes[i] = t})

\* C10: the connect() sequence of a login signal that followed a
\* logout-induced disconnect fetches one token and creates one transport, and
\* no more than one authenticate handshake is emitted on that transport: its
\* own, once its transport is connected.
C10_OneFreshSequence ==
  \A c \in 1..Len(calls) :
     (calls[c].loginAfterLogout /\ calls[c].sock # NULL) =>
       /\ calls[c].fetches = 1
       /\ calls[c].created = 1
       /\ HandshakesOn(calls[c].sock) <= 1
       /\ calls[c].pc = "waitAuth" => calls[c].handshakes = <<calls[c].sock>>

\* C11: a disconnect() call (made by a caller or by the logout handler), in
\* whatever state it is made, returns with the status DISCONNECTED and no auth
\* token held, and the only transport it may close is the one held, and only
\* if that one is connected.
C11_DisconnectClears ==
  [][(CallDisconnect \/ LogoutSignal) =>
       /\ manager'.status = DISCONNECTED
       /\ manager'.authToken = NOTOKEN
       /\ \A t \in 1..Len(transports) :
            transports'[t] # transports[t] =>
              (t = manager.socket /\ transports[t].state = "connected"
                 /\ transports'[t].state = "closed")]_vars

\* C12: a connect() invocation rejects when its authenticate handshake fails
\* (negative acknowledgement or the handshake timeout) as it does when the
\* initial connection fails (connect timeout or connect_error), and it
\* resolves only in the step in which its connection succeeded with no token
\* obtained, or in which its handshake was acknowledged positively.
C12_AuthFailureRejects ==
  [][\A c \in 1..Len(calls) :
       /\ (calls[c].pc = "waitAuth" /\ (AuthAck(c, FALSE) \/ AuthTimeout(c))) =>
            calls'[c].pc = "rejected"
       /\ (calls[c].pc = "waitConn"
             /\ (ConnectTimeout(c) \/ TransportConnectError(calls[c].sock))) =>
            calls'[c].pc = "rejected"
       /\ (calls[c].pc # "resolved" /\ calls'[c].pc = "resolved") =>
            \/ calls[c].pc = "waitConn" /\ calls[c].token = NOTOKEN
                 /\ TransportConnect(calls[c].sock)
            \/ calls[c].pc = "waitAuth" /\ AuthAck(c, TRUE)]_vars

\* C13: while a connect() invocation waits for its connection, the first of
\* {connect event, connect_error, connect timeout} decides: on the timeout or
\* connect_error it rejects with the status ERROR in that same step, on the
\* connect event it goes on and is not rejected; an invocation rejects in no
\* other step, and once settled it never changes.
C13_ConnectRace ==
  [][\A c \in 1..Len(calls) :
       /\ (calls[c].pc = "waitConn"
             /\ (ConnectTimeout(c) \/ TransportConnectError(calls[c].sock))) =>
            (calls'[c].pc = "rejected" /\ manager'.status = ERROR)
       /\ (calls[c].pc = "waitConn" /\ TransportConnect(calls[c].sock)) =>
            calls'[c].pc \in {"waitAuth", "resolved"}
       /\ (calls[c].pc # "rejected" /\ calls'[c].pc = "rejected") =>
            /\ calls[c].pc = "waitConn"
            /\ manager'.status = ERROR
            /\ ConnectTimeout(c) \/ TransportConnectError(calls[c].sock)
       /\ calls[c].pc \in {"resolved", "rejected"} => calls'[c] = calls[c]]_vars

\* A connect() that was rejected by its timeout: the status is ERROR and the
\* transport it created is still trying to connect.
C13_Witness ==
  /\ manager.status = ERROR
  /\ manager.socket # NULL
  /\ transports[manager.socket].state = "opening"
  /\ \E c \in 1..Len(calls) : calls[c].pc = "rejected"

\* The manager holds no auth token and no connected transport.
LoggedOutState(m, tr) ==
  /\ m.authToken = NOTOKEN
  /\ ~IsConnected(World(m, tr, "none"))

\* C14: when a logout signal has been handled the manager holds no auth token
\* and no connected transport, in whatever state the signal arrived, and this
\* still holds after the step that follows the signal, unless that step is a
\* login signal or a connect() call.
C14_LogoutInvalidates ==
  [][/\ loggedOut' => LoggedOutState(manager', transports')
     /\ (loggedOut /\ ~(CallConnect \/ LoginSignal)) =>
          LoggedOutState(manager', transports')]_vars

\* ================================================================= policy
\* C15: isRetryableError(statusCode, config) is true exactly when
\* config.enabled is true and statusCode is one of config.retryableStatusCodes,
\* and the answer is the same for every attempt it is asked for.
C15_RetryableIff ==
  \A i \in 1..Len(policy.decisions) :
     /\ policy.decisions[i] =
          (policy.config.enabled
             /\ policy.statusCode \in policy.config.retryableStatusCodes)
     /\ policy.decisions[i] = policy.decisions[1]

\* isRetryableError was asked, for every attempt, about a status of the list
\* with retry disabled, and answered false each time.
C15_Witness ==
  /\ ~policy.config.enabled
  /\ policy.statusCode \in policy.config.retryableStatusCodes
  /\ Len(policy.decisions) = MaxPolicyAttempts
  /\ \A i \in 1..Len(policy.decisions) : ~policy.decisions[i]

\* The delays of the example: initialDelay 1000, backoffMultiplier 2,
\* maxDelay 10000.
ExampleDelays == <<1000, 2000, 4000, 8000, 10000>>

\* C16: calculateRetryDelay(attempt, config) is
\* min(initialDelay * backoffMultiplier^(attempt - 1), maxDelay) for attempt >= 1;
\* for backoffMultiplier > 1 it never decreases from one attempt to the next
\* and never exceeds maxDelay; and with the default config the delays of
\* attempts 1..5 are 1000, 2000, 4000, 8000, 10000.
C16_DelayFormula ==
  LET cfg == policy.config
      d == policy.delays
  IN /\ \A k \in 1..Len(d) :
          d[k] = Min(cfg.initialDelay * Pow(cfg.backoffMultiplier, k - 1), cfg.maxDelay)
     /\ cfg.backoffMultiplier > 1 =>
          /\ \A k \in 1..Len(d) : d[k] <= cfg.maxDelay
          /\ \A k \in 1..(Len(d) - 1) : d[k] <= d[k + 1]
     /\ (cfg.initialDelay = 1000 /\ cfg.backoffMultiplier = 2 /\ cfg.maxDelay = 10000) =>
          \A k \in 1..Len(d) : k <= Len(ExampleDelays) => d[k] = ExampleDelays[k]

\* The delays of attempts 1..5 were computed with the default config.
C16_Witness ==
  /\ policy.config.initialDelay = DefaultInitialDelay
  /\ policy.config.backoffMultiplier = DefaultBackoffMultiplier
  /\ policy.config.maxDelay = DefaultMaxDelay
  /\ Len(policy.delays) >= 5
  /\ policy.delays[4] = 8000
  /\ policy.delays[5] = 10000

\* =========================================================== subscription
\* Listener l is in the listeners array of tracker t.
Subscribed(t, l) == \E i \in 1..Len(t.listeners) : t.listeners[i] = l

\* What listener l was called with during the step.
Received(l) ==
  SubSeq(tracker'.inbox[l], Len(tracker.inbox[l]) + 1, Len(tracker'.inbox[l]))

MappedKeys(event, data) ==
  CASE event = "user:updated" -> {"users", "me"}
    [] event = "notification:new" -> {"notifications"}
    [] event = "message:new" -> {"messages", data.channelId}
    [] event = "data:updated" -> {data.resourceType, data.resourceId}
    [] OTHER -> {}

\* C18: whatever inbound event the registered handlers handle, every cache
\* operation they issue is an invalidate or a refetch (refetch exactly for the
\* event mapped with action 'refetch') of a key resolved from the event's
\* mapping, and carries no payload: setData is never called.
C18_SignalOnly ==
  \A k \in 1..Len(bridge.ops) :
    /\ bridge.ops[k].op \in {"invalidate", "refetch"}
    /\ bridge.ops[k].op = "refetch" <=> bridge.event = "notification:new"
    /\ bridge.ops[k].key \in MappedKeys(bridge.event, bridge.data)
    /\ bridge.ops[k].data = "none"

\* A data:updated event handled by registered handlers: its keys come from
\* the payload.
C18_Witness ==
  /\ bridge.event = "data:updated"
  /\ bridge.data.resourceType = "users"
  /\ Len(bridge.ops) >= 2
  /\ bridge.ops[1].key = "users"
  /\ bridge.ops[2].key = "u-7"

\* C19: a callback is added only to the transport the manager holds at the
\* time of the registration (so none is added when it holds none), a newly
\* created transport has no callback, and an inbound event triggers cache
\* operations only if the transport that delivers it has a callback for it:
\* after a reconnect the mapped events of the new transport trigger nothing
\* until setupSocketEventMappings is called again.
C19_TransportScoped ==
  [][ /\ \A t \in 1..Len(transports) : \A e \in SocketEvents :
           transports'[t].callbacks[e] > transports[t].callbacks[e]
             => manager.socket = t /\ manager'.socket = t /\ e \in MappedEvents
      /\ \A t \in (Len(transports) + 1)..Len(transports') : \A e \in SocketEvents :
           transports'[t].callbacks[e] = 0
      /\ bridge'.on # NULL =>
           (bridge'.ops # << >> <=>
              /\ bridge'.event \in MappedEvents
              /\ transports'[bridge'.on].callbacks[bridge'.event] > 0) ]_vars

\* After a reconnect, the new transport, held and connected, delivers a mapped
\* event while the handlers are still registered on the old one: no cache
\* operation.
C19_Witness ==
  /\ Len(transports) >= 2
  /\ manager.socket = 2
  /\ transports[2].state = "connected"
  /\ transports[1].callbacks["message:new"] > 0
  /\ transports[2].callbacks["message:new"] = 0
  /\ bridge.on = 2
  /\ bridge.event = "message:new"
  /\ bridge.ops = << >>

\* C20: a request() call made with retry disabled performs exactly one
\* attempt, whatever its maxAttempts and whatever the attempt fails with (a
\* retryable status included): it never enters the backoff wait, and once the
\* attempt is over it has made one tracker update (recordSuccess for a
\* response that is ok, recordFailure otherwise) and has returned or thrown
\* the error of that attempt.
C20_RetryOffOneAttempt ==
  \A p \in Requests :
    LET r == req[p]
    IN (r.pc # "idle" /\ ~r.retry.enabled) =>
         /\ CountTag(r.events, "fetch") = 1
         /\ CountTag(r.events, "wait") = 0
         /\ r.pc \in {"fetching", "returned", "thrown"}
         /\ r.pc = "returned" =>
               /\ CountTag(r.events, "recordSuccess") = 1
               /\ CountTag(r.events, "recordFailure") = 0
         /\ r.pc = "thrown" =>
               /\ CountTag(r.events, "recordSuccess") = 0
               /\ CountTag(r.events, "recordFailure") = 1
               /\ r.error \in {NetworkError} \cup {handleResponse(st) : st \in Statuses}
               /\ r.events[Len(r.events)] = <<"throw", r.error.kind, r.error.statusCode>>

\* A call with retry disabled and maxAttempts at its largest, whose single
\* attempt was answered 503 (a retryable status): thrown after one fetch.
C20_Witness ==
  \E p \in Requests :
    /\ ~req[p].retry.enabled
    /\ req[p].retry.maxAttempts = MaxAttempts
    /\ req[p].pc = "thrown"
    /\ req[p].error.statusCode = 503
    /\ CountTag(req[p].events, "fetch") = 1
    /\ tracker.consecutiveFailures >= 1

\* C21: whenever the status is CONNECTED the manager holds a transport and
\* that transport is connected.
C21_ConnectedUsable ==
  manager.status = CONNECTED =>
    /\ manager.socket # NULL
    /\ transports[manager.socket].state = "connected"

\* C22: while a connect() that obtained a token awaits the result of its
\* authenticate handshake, the published status is not CONNECTED.
C22_ConnectedAfterHandshake ==
  \A c \in 1..Len(calls) :
    (calls[c].pc = "waitAuth" /\ calls[c].token # NOTOKEN) => manager.status # CONNECTED

\* C23: in the step where the authenticate handshake of a connect() fails
\* (the server answers without success, or the 5 s timer fires) the call
\* settles and leaves the manager with no transport, no token and the status
\* ERROR, and the transport of the handshake closed.
C23_HandshakeFailure ==
  [][\A c \in 1..Len(calls) :
       (calls[c].pc = "waitAuth" /\ (AuthTimeout(c) \/ AuthAck(c, FALSE))) =>
          /\ calls'[c].pc \in {"resolved", "rejected"}
          /\ manager'.socket = NULL
          /\ manager'.authToken = NOTOKEN
          /\ manager'.status = ERROR
          /\ transports'[calls[c].handshakes[Len(calls[c].handshakes)]].state = "closed"]_vars

\* The events that tell the outcome of an attempt.
OutcomeTags == {"status", "neterr", "timeout"}

\* Call p issues a fetch in the step.
IssuesFetch(p) ==
  /\ Len(req'[p].events) > Len(req[p].events)
  /\ req'[p].events[Len(req'[p].events)][1] = "fetch"

\* C24: within one request() call a fetch is issued only by the call itself
\* at its start or when its backoff wait elapses, the wait having followed
\* the outcome of the attempt before, and never while another fetch of the
\* call is awaited, so the call never has two fetches in flight.  Concurrent
\* calls are independent: a step of one call changes no other call, any call
\* may start or go on whatever the others do, the tracker is updated only in
\* the step where a call settles, once, and every call that throws after an
\* attempt adds one to the shared counter.
C24_Interleaving ==
  [][\A p \in Requests :
       LET r == req[p]
           n == Len(r.events)
       IN /\ IssuesFetch(p) =>
               /\ r.pc \in {"idle", "waiting"}
               /\ r.pc = "idle" => req'[p].events = << <<"fetch", 1>> >>
               /\ r.pc = "waiting" =>
                     /\ r.events[n][1] = "wait"
                     /\ r.events[n - 1][1] \in OutcomeTags
                     /\ req'[p].events = Append(r.events, <<"fetch", r.attempt + 1>>)
          /\ req'[p].inflight <= 1
          /\ req'[p] # r => \A q \in Requests \ {p} : req'[q] = req[q]
          /\ (~Settled(r) /\ Settled(req'[p])) =>
               /\ req'[p].pc = "returned" => tracker' = recordSuccess(tracker)
               /\ (req'[p].pc = "thrown" /\ r.maxAttempts >= 1) =>
                     /\ tracker' = recordFailure(tracker)
                     /\ tracker'.consecutiveFailures = tracker.consecutiveFailures + 1
          /\ tracker' # tracker =>
               \E q \in Requests : ~Settled(req[q]) /\ Settled(req'[q])]_vars

\* Two calls in flight at once, one of them in its second attempt, while
\* nothing has been recorded yet.
C24_Witness ==
  \E p, q \in Requests :
    /\ p # q
    /\ req[p].pc = "fetching"
    /\ req[p].attempt = 2
    /\ req[q].pc = "fetching"
    /\ tracker.consecutiveFailures = 0

\* C25: an attempt gets its outcome in one step, taken while the call awaits
\* the fetch, from whichever of the response, the failure of the fetch and
\* the timer comes first; when the timer comes first the attempt fails with
\* a NetworkError (the call throws it, or waits to retry) and the fetch stays
\* in flight; a fetch that settles after that changes nothing of the call but
\* the count of fetches in flight, and nothing of the tracker.
C25_TimeoutRace ==
  [][\A p \in Requests :
       LET r == req[p]
           n == Len(r.events)
           n2 == Len(req'[p].events)
       IN /\ (n2 > n /\ req'[p].events[n + 1][1] \in OutcomeTags) =>
               /\ r.pc = "fetching"
               /\ req'[p].pc # "fetching"
               /\ \A i \in (n + 2)..n2 : req'[p].events[i][1] \notin OutcomeTags
          /\ (n2 > n /\ req'[p].events[n + 1] = <<"timeout">>) =>
               /\ req'[p].inflight = r.inflight
               /\ \/ /\ req'[p].pc = "thrown"
                     /\ req'[p].error = NetworkError
                  \/ req'[p].pc = "waiting"
          /\ (r.pc # "fetching" /\ req'[p].inflight < r.inflight) =>
               /\ req'[p] = [r EXCEPT !.inflight = @ - 1]
               /\ tracker' = tracker]_vars

\* A call that threw on the timeout of its attempt and whose abandoned fetch
\* has settled since, next to another call that failed: two failures counted.
C25_Witness ==
  \E p, q \in Requests :
    /\ p # q
    /\ req[p].pc = "thrown"
    /\ req[p].error = NetworkError
    /\ req[p].inflight = 0
    /\ req[p].events[Len(req[p].events) - 2] = <<"timeout">>
    /\ req[q].pc = "thrown"
    /\ tracker.consecutiveFailures = 2

\* The outcomes of an attempt that failed with a NetworkError.
NetworkTags == {"neterr", "timeout"}

\* C26: an attempt that fails with a NetworkError is the last of its call:
\* in the same step the call calls recordFailure() and throws the
\* NetworkError (status 0), so a backoff wait and a further attempt only ever
\* follow an answered attempt; a call whose first attempt fails so has made
\* one attempt, whatever its maxAttempts and with retry enabled or not.
C26_NetworkErrorNotRetried ==
  \A p \in Requests :
    LET r == req[p]
        n == Len(r.events)
    IN /\ ~(n >= 1 /\ r.events[n][1] \in NetworkTags)
       /\ (n >= 3 /\ r.events[n - 2][1] \in NetworkTags) =>
             /\ r.pc = "thrown"
             /\ r.error = NetworkError
             /\ r.events[n - 1] = <<"recordFailure">>
             /\ r.events[n] = <<"throw", "NetworkError", 0>>
       /\ (n >= 2 /\ r.events[n][1] = "wait") => r.events[n - 1][1] = "status"
       /\ (n >= 3 /\ r.events[n][1] = "fetch") => r.events[n - 2][1] = "status"
       /\ (n >= 2 /\ r.events[2][1] \in NetworkTags) => (n = 4 /\ r.attempt = 1)

\* A call with retry enabled and maxAttempts at its largest whose first
\* attempt timed out: thrown after one attempt, one failure recorded.
C26_Witness ==
  \E p \in Requests :
    /\ req[p].retry.enabled
    /\ req[p].retry.maxAttempts = MaxAttempts
    /\ req[p].events = << <<"fetch", 1>>, <<"timeout">>, <<"recordFailure">>,
                          <<"throw", "NetworkError", 0>> >>
    /\ req[p].pc = "thrown"
    /\ tracker.consecutiveFailures = 1

\* The number of times listener l is in the listeners array of tracker t.
Subscriptions(t, l) == Cardinality({i \in 1..Len(t.listeners) : t.listeners[i] = l})

\* The step calls no listener and leaves the status and the timer as they are.
QuietStep ==
  /\ tracker'.status = tracker.status
  /\ tracker'.inbox = tracker.inbox
  /\ tracker'.recoveryTimer = tracker.recoveryTimer
  /\ tracker'.liveTimers = tracker.liveTimers

\* The listeners are told DEGRADED in the steps that take the status to
\* DEGRADED, once per subscription, and in no other step; and at most one
\* recovery timer exists, the one recoveryTimer refers to.
OncePerEpisode ==
  /\ \A l \in Listeners :
       IF tracker.status # DEGRADED /\ tracker'.status = DEGRADED
       THEN /\ Len(Received(l)) = Subscriptions(tracker, l)
            /\ \A i \in 1..Len(Received(l)) : Received(l)[i] = DEGRADED
       ELSE \A i \in 1..Len(Received(l)) : Received(l)[i] # DEGRADED
  /\ tracker'.liveTimers <= 1
  /\ tracker'.recoveryTimer <=> tracker'.liveTimers = 1

\* C27 as stated: a recordFailure() or a forceDegraded() made while the
\* status is DEGRADED increments the counter and is otherwise quiet; DEGRADED
\* is notified once per transition and at most one recovery timer exists.
C27_AsStated ==
  [][/\ ((CallRecordFailure \/ CallForceDegraded) /\ tracker.status = DEGRADED) =>
          /\ tracker'.consecutiveFailures = tracker.consecutiveFailures + 1
          /\ QuietStep
     /\ OncePerEpisode]_vars

\* C27, amended: a recordFailure() made while the status is DEGRADED
\* increments the counter, a forceDegraded() made then leaves it as it is, and
\* both are otherwise quiet: no status change, no listener called, no timer
\* started; DEGRADED is notified once per subscription in the step of each
\* transition to DEGRADED and in no other step, and at most one recovery timer
\* exists at any time.
C27_DegradedOnce ==
  [][/\ (CallRecordFailure /\ tracker.status = DEGRADED) =>
          /\ tracker'.consecutiveFailures = tracker.consecutiveFailures + 1
          /\ QuietStep
     /\ (CallForceDegraded /\ tracker.status = DEGRADED) =>
          /\ tracker'.consecutiveFailures = tracker.consecutiveFailures
          /\ QuietStep
     /\ OncePerEpisode]_vars

\* A subscribed listener told DEGRADED once, after the transition was
\* followed by a forceDegraded() and a further recordFailure().
C27_Witness ==
  /\ trackerLog = <<"subscribe", "recordFailure", "forceDegraded", "recordFailure">>
  /\ tracker.maxConsecutiveFailures = 1
  /\ tracker.status = DEGRADED
  /\ tracker.consecutiveFailures = 2
  /\ tracker.liveTimers = 1
  /\ \E l \in Listeners : tracker.inbox[l] = <<DEGRADED>>

\* The tracker was driven by recordSuccess() and recordFailure() alone (and
\* by subscriptions and timer ticks, which touch neither status nor counter).
NoTestHooksSoFar ==
  \A i \in 1..Len(trackerLog) :
     trackerLog[i] \in {"recordSuccess", "recordFailure", "subscribe", "unsubscribe"}

\* C28: as long as no test hook was called, the status is DEGRADED exactly
\* when the counter has reached the threshold and ONLINE otherwise, so it is
\* never OFFLINE; and the recovery timer runs exactly while the status is
\* DEGRADED.
C28_StatusIffThreshold ==
  NoTestHooksSoFar =>
    /\ tracker.status = DEGRADED <=>
          tracker.consecutiveFailures >= tracker.maxConsecutiveFailures
    /\ tracker.status = ONLINE <=>
          tracker.consecutiveFailures < tracker.maxConsecutiveFailures
    /\ tracker.status # OFFLINE
    /\ tracker.recoveryTimer <=> tracker.status = DEGRADED

\* A tracker with threshold 2 that recovered once and was driven past the
\* threshold again.
C28_Witness ==
  /\ trackerLog = <<"recordFailure", "recordSuccess", "recordFailure", "recordFailure",
                    "recordFailure">>
  /\ tracker.maxConsecutiveFailures = 2
  /\ tracker.consecutiveFailures = 3
  /\ tracker.status = DEGRADED

\* The errors request() throws for a failed attempt.
TypedErrors ==
  {NetworkError} \cup {handleResponse(st) : st \in AnswerStatuses \ {200}}

\* C29: a request() call whose attempts settle and whose waits elapse makes
\* at most maxAttempts attempts (at most one with retry disabled) and then
\* returns or throws: a call with maxAttempts >= 1 throws the typed error of
\* its last attempt, after recordFailure(), never the error of the
\* fall-through after the loop; and a call that was started settles.
C29_Terminates ==
  /\ [](LET r == req[TheCaller]
            n == Len(r.events)
        IN /\ r.attempt <= r.maxAttempts + 1
           /\ CountTag(r.events, "fetch") <= r.maxAttempts
           /\ (r.pc # "idle" /\ ~r.retry.enabled) => CountTag(r.events, "fetch") <= 1
           /\ (r.pc = "thrown" /\ r.maxAttempts >= 1) =>
                 /\ r.attempt <= r.maxAttempts
                 /\ r.error \in TypedErrors
                 /\ n >= 4
                 /\ r.events[n - 1] = <<"recordFailure">>
                 /\ r.events[n] = <<"throw", r.error.kind, r.error.statusCode>>)
  /\ (req[TheCaller].pc \in {"fetching", "waiting"}) ~> Settled(req[TheCaller])

\* A call that used all of its attempts, each answered 503, and threw.
C29_Witness ==
  /\ req[TheCaller].pc = "thrown"
  /\ req[TheCaller].retry.maxAttempts = MaxAttempts
  /\ CountTag(req[TheCaller].events, "fetch") = MaxAttempts
  /\ req[TheCaller].error = handleResponse(503)

\* C30: an inbound mapped event that triggers cache operations triggers
\* exactly one for each key resolved from its mapping.
C30_NoDuplicateDelivery ==
  (bridge.on # NULL /\ bridge.ops # << >>) =>
    \A key \in MappedKeys(bridge.event, bridge.data) :
      Cardinality({k \in 1..Len(bridge.ops) : bridge.ops[k].key = key}) = 1

====
